---- MODULE Spec2Model ----
(***************************************************************************)
(* Model of the NetworkVisualization component of LinkedBoard Pro          *)
(* (src/src/pages/connection-network-tree/components/                      *)
(* NetworkVisualization.jsx): the node layout computed on every render,    *)
(* the connection-strength classification, and the local pan / zoom /      *)
(* drag / hover state driven by the DOM event handlers.                    *)
(*                                                                         *)
(* Numbers.  JavaScript numbers are modelled by exact rationals            *)
(* [n |-> numerator, d |-> denominator] in lowest terms.  An angle is kept *)
(* symbolically as turns * 2*pi + radians (pi is irrational, so the two    *)
(* parts never mix), and a position as the polar form the code feeds to    *)
(* Math.cos / Math.sin: the point                                          *)
(*   (cx + cos(angle) * radius, cy + sin(angle) * radius).                 *)
(* For radius > 0 and angles in [0, 2*pi) two points are equal exactly     *)
(* when their polar forms are equal.                                       *)
(*                                                                         *)
(* Rendering.  Every handler runs against the state of the latest render   *)
(* (the effect at lines 135-150 re-attaches the listeners whenever         *)
(* isDragging, dragStart or pan changed), and the render that a state      *)
(* update schedules is part of the handler's action.                       *)
(*                                                                         *)
(* Specifications.  Spec composes every handler.  SpecRender runs the      *)
(* render alone over the layout and strength inputs, SpecView the svg      *)
(* listeners and zoom controls, SpecSelect the node elements' events.      *)
(***************************************************************************)
EXTENDS Integers, Sequences, FiniteSets, TLC

VARIABLES
    connections,        \* prop: the list of connection objects
    viewMode,           \* prop: "tree" | "force" | "circular"
    zoom,               \* useState(1)
    pan,                \* useState({x: 0, y: 0})
    isDragging,         \* useState(false)
    dragStart,          \* useState({x: 0, y: 0})
    hoveredConnection,  \* useState(null)
    nodePositions,      \* the Map returned by calculateNodePositions in the latest render
    nodeColors,         \* fill colour of every connection node in the latest render
    onNodeSelectCalls,  \* the arguments of the calls made to the onNodeSelect prop
    zoomClicks,         \* history: zoom-button clicks since construction or the last reset
    lastSvgEvent,       \* history: the latest of mousedown / mouseup / mouseleave on the svg
    grabPointer,        \* history: pointer position of the latest mousedown
    grabPan             \* history: pan when the latest mousedown was handled

vars == <<connections, viewMode, zoom, pan, isDragging, dragStart, hoveredConnection,
          nodePositions, nodeColors, onNodeSelectCalls, zoomClicks, lastSvgEvent,
          grabPointer, grabPan>>

localState == <<zoom, pan, isDragging, dragStart, hoveredConnection>>

props == <<connections, viewMode>>

history == <<zoomClicks, lastSvgEvent, grabPointer, grabPan>>

-----------------------------------------------------------------------------
(* Bounds *)

MaxCoord == 1          \* pointer coordinates clientX, clientY range over 0..MaxCoord
MaxPan == 1            \* a drag is followed while |pan.x|, |pan.y| <= MaxPan
MaxZoomClicks == 8     \* zoom-button clicks explored after construction or a reset
MaxSelectCalls == 1    \* onNodeSelect calls recorded
RandomGrain == 2       \* Math.random() ranges over k / RandomGrain, k in 0..RandomGrain-1
MaxConnections == 3    \* longest connections list of the layout inputs
MaxMutuals == 2        \* longest mutualConnections list of the layout inputs
MaxForceConnections == 1  \* longest layout input laid out in force mode (two random draws each)
MaxInteractions == 60  \* largest interactions count of the strength inputs

-----------------------------------------------------------------------------
(* Exact rational arithmetic *)

Abs(i) == IF i < 0 THEN -i ELSE i

RECURSIVE GCD(_, _)
GCD(a, b) == IF b = 0 THEN a ELSE GCD(b, a % b)

Rat(n, d) ==
    LET g == GCD(Abs(n), Abs(d))
        s == IF d < 0 THEN -1 ELSE 1
    IN  [n |-> (s * n) \div g, d |-> (s * d) \div g]

RatMul(a, b) == Rat(a.n * b.n, a.d * b.d)

RatDiv(a, b) == Rat(a.n * b.d, a.d * b.n)

RatAdd(a, b) == Rat(a.n * b.d + b.n * a.d, a.d * b.d)

RatLess(a, b) == a.n * b.d < b.n * a.d

RatLeq(a, b) == a.n * b.d <= b.n * a.d

RatMin(a, b) == IF RatLess(b, a) THEN b ELSE a

RatMax(a, b) == IF RatLess(a, b) THEN b ELSE a

-----------------------------------------------------------------------------
(* Layout: calculateNodePositions *)

ViewModes == {"tree", "force", "circular"}

centerX == 400

centerY == 300

TreeRadius == 150

SubRadius == 250

CircularRadius == 200

Angle(turns, radians) == [turns |-> turns, radians |-> radians]

Point(radius, angle) == [cx |-> centerX, cy |-> centerY, radius |-> radius, angle |-> angle]

UserPosition == [x |-> centerX, y |-> centerY]

MapSet(map, key, value) ==
    [k \in DOMAIN map \cup {key} |-> IF k = key THEN value ELSE map[k]]

RECURSIVE MapSetAll(_, _)
MapSetAll(map, writes) ==
    IF writes = <<>> THEN map
    ELSE MapSetAll(MapSet(map, Head(writes)[1], Head(writes)[2]), Tail(writes))

RECURSIVE Flatten(_)
Flatten(seqs) == IF seqs = <<>> THEN <<>> ELSE Head(seqs) \o Flatten(Tail(seqs))

MutualsOf(connection) ==
    IF "mutualConnections" \in DOMAIN connection THEN connection.mutualConnections ELSE <<>>

MutualKey(connection, mutual) == connection.id \o "-" \o mutual.id

\* Faulty variant of IndexAngle: the index counted from one.
IndexAngleFromOne(conns, i) == Angle(Rat(i, Len(conns)), Rat(0, 1))

IndexAngle(conns, i) == Angle(Rat(i - 1, Len(conns)), Rat(0, 1))

SubAngle(angle, mIndex) == Angle(angle.turns, RatAdd(angle.radians, Rat((mIndex - 1) * 3, 10)))

TreeWrites(conns) ==
    Flatten([i \in 1..Len(conns) |->
        <<  <<conns[i].id, Point(Rat(TreeRadius, 1), IndexAngle(conns, i))>>  >>
        \o [k \in 1..Len(MutualsOf(conns[i])) |->
              <<MutualKey(conns[i], MutualsOf(conns[i])[k]),
                Point(Rat(SubRadius, 1), SubAngle(IndexAngle(conns, i), k - 1))>>]])

CircularWrites(conns) ==
    [i \in 1..Len(conns) |-> <<conns[i].id, Point(Rat(CircularRadius, 1), IndexAngle(conns, i))>>]

MathRandom == {Rat(k, RandomGrain) : k \in 0..(RandomGrain - 1)}

ForcePoint(r1, r2) == Point(RatAdd(Rat(100, 1), RatMul(r2, Rat(150, 1))), Angle(r1, Rat(0, 1)))

ForceWrites(conns) ==
    {[i \in 1..Len(conns) |-> <<conns[i].id, ForcePoint(draws[i][1], draws[i][2])>>] :
        draws \in [1..Len(conns) -> MathRandom \X MathRandom]}

CalculateNodePositions(conns, mode) ==
    LET start == [k \in {"user"} |-> UserPosition]
    IN  IF mode = "tree" THEN {MapSetAll(start, TreeWrites(conns))}
        ELSE IF mode = "circular" THEN {MapSetAll(start, CircularWrites(conns))}
        ELSE {MapSetAll(start, w) : w \in ForceWrites(conns)}

-----------------------------------------------------------------------------
(* Connection strength and colour *)

Interactions(connection) ==
    IF "interactions" \in DOMAIN connection /\ connection.interactions # 0
    THEN connection.interactions ELSE 0

GetConnectionStrength(connection) ==
    IF Interactions(connection) > 50 THEN "strong"
    ELSE IF Interactions(connection) > 20 THEN "medium"
    ELSE "weak"

GetNodeColor(connection) ==
    CASE GetConnectionStrength(connection) = "strong" -> "#0A66C2"
      [] GetConnectionStrength(connection) = "medium" -> "#42B883"
      [] OTHER -> "#65676B"

RenderNodeColors(conns) == [i \in 1..Len(conns) |-> GetNodeColor(conns[i])]

-----------------------------------------------------------------------------
(* Inputs: the props handed down by the parent.  Connection ids are        *)
(* distinct and mutual ids are distinct within one connection (they are    *)
(* the React keys of the rendered elements, lines 284 and 326).            *)

Id(i) == ToString(i)

AscendingIds(n) == [i \in 1..n |-> Id(i)]

DescendingIds(n) == [i \in 1..n |-> Id(n + 1 - i)]

MutualList(len) == [k \in 1..len |-> [id |-> Id(MaxConnections + 1 + k)]]

ConnectionShapes(id) ==
    {[id |-> id]} \cup {[id |-> id, mutualConnections |-> MutualList(len)] : len \in 0..MaxMutuals}

LayoutInputs ==
    UNION {{conns \in [1..n -> UNION {ConnectionShapes(Id(i)) : i \in 1..n}] :
                \/ \A i \in 1..n : conns[i].id = AscendingIds(n)[i]
                \/ \A i \in 1..n : conns[i].id = DescendingIds(n)[i]} : n \in 0..MaxConnections}

StrengthInputs ==
    {<<[id |-> Id(1)]>>} \cup {<<[id |-> Id(1), interactions |-> n]>> : n \in 0..MaxInteractions}

SampleConnections ==
    {<<[id |-> Id(1), interactions |-> 50, mutualConnections |-> MutualList(1)]>>}

Pointer == [clientX : 0..MaxCoord, clientY : 0..MaxCoord]

Null == "null"

UserNode == [id |-> "user", name |-> "You"]

-----------------------------------------------------------------------------
(* The component: construction, render and handlers *)

InitState ==
    /\ zoom = Rat(1, 1)
    /\ pan = [x |-> 0, y |-> 0]
    /\ isDragging = FALSE
    /\ dragStart = [x |-> 0, y |-> 0]
    /\ hoveredConnection = Null
    /\ onNodeSelectCalls = <<>>
    /\ zoomClicks = 0
    /\ lastSvgEvent = "none"
    /\ grabPointer = Null
    /\ grabPan = Null

\* The state once the component is mounted: the first render has run.
InitLocal ==
    /\ InitState
    /\ nodePositions \in CalculateNodePositions(connections, viewMode)
    /\ nodeColors = RenderNodeColors(connections)

Init ==
    /\ connections \in SampleConnections
    /\ viewMode \in ViewModes
    /\ InitLocal

\* The props and hook state of a component about to be rendered for the first
\* time: nothing is laid out yet.
InitRender ==
    /\ connections \in LayoutInputs \cup StrengthInputs
    /\ viewMode \in ViewModes
    /\ viewMode = "force" => Len(connections) <= MaxForceConnections
    /\ InitState
    /\ nodePositions = <<>>
    /\ nodeColors = <<>>

\* The component function runs again: lines 28-81 recompute the layout and the
\* JSX at lines 279-317 recomputes the fills.
Render ==
    /\ nodePositions' \in CalculateNodePositions(connections, viewMode)
    /\ nodeColors' = RenderNodeColors(connections)

\* A state setter schedules a render unless the new value is the same
\* primitive value as the old one; an object literal is always a new value.
RenderIf(changed) ==
    IF changed THEN Render ELSE UNCHANGED <<nodePositions, nodeColors>>

\* Faulty variant of HandleMouseDown: the grab offset ignores the current pan.
HandleMouseDownAbsolute(e) ==
    /\ isDragging' = TRUE
    /\ dragStart' = [x |-> e.clientX, y |-> e.clientY]
    /\ UNCHANGED <<zoom, pan, hoveredConnection>>

HandleMouseDown(e) ==
    /\ isDragging' = TRUE
    /\ dragStart' = [x |-> e.clientX - pan.x, y |-> e.clientY - pan.y]
    /\ UNCHANGED <<zoom, pan, hoveredConnection>>

\* Faulty variant of HandleMouseMove: the isDragging test is missing.
HandleMouseMoveAlways(e) ==
    /\ pan' = [x |-> e.clientX - dragStart.x, y |-> e.clientY - dragStart.y]
    /\ UNCHANGED <<zoom, isDragging, dragStart, hoveredConnection>>

HandleMouseMove(e) ==
    IF isDragging
    THEN /\ pan' = [x |-> e.clientX - dragStart.x, y |-> e.clientY - dragStart.y]
         /\ UNCHANGED <<zoom, isDragging, dragStart, hoveredConnection>>
    ELSE UNCHANGED localState

HandleMouseUp ==
    /\ isDragging' = FALSE
    /\ UNCHANGED <<zoom, pan, dragStart, hoveredConnection>>

\* Faulty variant of HandleZoom: zooming in is not capped.
HandleZoomUncapped(direction) ==
    /\ zoom' = IF direction = "in"
                THEN RatMul(zoom, Rat(12, 10))
                ELSE RatMax(RatDiv(zoom, Rat(12, 10)), Rat(3, 10))
    /\ UNCHANGED <<pan, isDragging, dragStart, hoveredConnection>>

HandleZoom(direction) ==
    /\ zoom' = IF direction = "in"
                THEN RatMin(RatMul(zoom, Rat(12, 10)), Rat(3, 1))
                ELSE RatMax(RatDiv(zoom, Rat(12, 10)), Rat(3, 10))
    /\ UNCHANGED <<pan, isDragging, dragStart, hoveredConnection>>

\* Faulty variant of HandleNodeClick: the selection is also kept in local state.
HandleNodeClickStored(node) ==
    /\ onNodeSelectCalls' = Append(onNodeSelectCalls, node)
    /\ hoveredConnection' = node.id
    /\ UNCHANGED <<zoom, pan, isDragging, dragStart>>

HandleNodeClick(node) ==
    /\ onNodeSelectCalls' = Append(onNodeSelectCalls, node)
    /\ UNCHANGED localState

HandleConnectionHover(connectionId) ==
    /\ hoveredConnection' = connectionId
    /\ UNCHANGED <<zoom, pan, isDragging, dragStart>>

ResetViewState ==
    /\ zoom' = Rat(1, 1)
    /\ pan' = [x |-> 0, y |-> 0]
    /\ UNCHANGED <<isDragging, dragStart, hoveredConnection>>

InPanRange(p) == Abs(p.x) <= MaxPan /\ Abs(p.y) <= MaxPan

MouseDown(e) ==
    /\ HandleMouseDown(e)
    /\ Render
    /\ lastSvgEvent' = "mousedown"
    /\ grabPointer' = e
    /\ grabPan' = pan
    /\ UNCHANGED <<props, onNodeSelectCalls, zoomClicks>>

MouseMove(e) ==
    /\ HandleMouseMove(e)
    /\ InPanRange(pan')
    /\ RenderIf(isDragging)
    /\ UNCHANGED <<props, onNodeSelectCalls, history>>

MouseUp ==
    /\ HandleMouseUp
    /\ RenderIf(isDragging)
    /\ lastSvgEvent' = "mouseup"
    /\ grabPointer' = Null
    /\ grabPan' = Null
    /\ UNCHANGED <<props, onNodeSelectCalls, zoomClicks>>

MouseLeave ==
    /\ HandleMouseUp
    /\ RenderIf(isDragging)
    /\ lastSvgEvent' = "mouseleave"
    /\ grabPointer' = Null
    /\ grabPan' = Null
    /\ UNCHANGED <<props, onNodeSelectCalls, zoomClicks>>

ZoomClick(direction) ==
    /\ zoomClicks < MaxZoomClicks
    /\ HandleZoom(direction)
    /\ RenderIf(zoom' # zoom)
    /\ zoomClicks' = zoomClicks + 1
    /\ UNCHANGED <<props, onNodeSelectCalls, lastSvgEvent, grabPointer, grabPan>>

ZoomIn == ZoomClick("in")

ZoomOut == ZoomClick("out")

ResetView ==
    /\ ResetViewState
    /\ Render
    /\ zoomClicks' = 0
    /\ UNCHANGED <<props, onNodeSelectCalls, lastSvgEvent, grabPointer, grabPan>>

NodeClick(node) ==
    /\ Len(onNodeSelectCalls) < MaxSelectCalls
    /\ HandleNodeClick(node)
    /\ UNCHANGED <<props, nodePositions, nodeColors, history>>

UserNodeClick == NodeClick(UserNode)

ConnectionClick(i) ==
    /\ i \in 1..Len(connections)
    /\ connections[i].id \in DOMAIN nodePositions
    /\ NodeClick(connections[i])

MutualClick(i, k) ==
    /\ i \in 1..Len(connections)
    /\ k \in 1..Len(MutualsOf(connections[i]))
    /\ MutualKey(connections[i], MutualsOf(connections[i])[k]) \in DOMAIN nodePositions
    /\ NodeClick(MutualsOf(connections[i])[k])

ConnectionMouseEnter(i) ==
    /\ i \in 1..Len(connections)
    /\ connections[i].id \in DOMAIN nodePositions
    /\ HandleConnectionHover(connections[i].id)
    /\ RenderIf(hoveredConnection' # hoveredConnection)
    /\ UNCHANGED <<props, onNodeSelectCalls, history>>

ConnectionMouseLeave(i) ==
    /\ i \in 1..Len(connections)
    /\ connections[i].id \in DOMAIN nodePositions
    /\ HandleConnectionHover(Null)
    /\ RenderIf(hoveredConnection' # hoveredConnection)
    /\ UNCHANGED <<props, onNodeSelectCalls, history>>

\* The parent renders the component (for the first time, or again) with the
\* same props.
ParentRender ==
    /\ Render
    /\ UNCHANGED <<props, localState, onNodeSelectCalls, history>>

Next ==
    \/ \E e \in Pointer : MouseDown(e)
    \/ \E e \in Pointer : MouseMove(e)
    \/ MouseUp
    \/ MouseLeave
    \/ ZoomIn
    \/ ZoomOut
    \/ ResetView
    \/ UserNodeClick
    \/ \E i \in 1..MaxConnections : ConnectionClick(i)
    \/ \E i \in 1..MaxConnections, k \in 1..MaxMutuals : MutualClick(i, k)
    \/ \E i \in 1..MaxConnections : ConnectionMouseEnter(i)
    \/ \E i \in 1..MaxConnections : ConnectionMouseLeave(i)

Spec == Init /\ [][Next]_vars

\* The render alone, over the layout and strength inputs.
NextRender == ParentRender

SpecRender == InitRender /\ [][NextRender]_vars

\* The view transform: the svg listeners and the zoom controls.
InitView ==
    /\ connections = <<>>
    /\ viewMode \in ViewModes
    /\ InitLocal

NextView ==
    \/ \E e \in Pointer : MouseDown(e)
    \/ \E e \in Pointer : MouseMove(e)
    \/ MouseUp
    \/ MouseLeave
    \/ ZoomIn
    \/ ZoomOut
    \/ ResetView

SpecView == InitView /\ [][NextView]_vars

\* The events of the node elements: hover and click, and the mousedown and
\* mouseup that bubble from a clicked node to the svg listeners.
NextSelect ==
    \/ \E e \in Pointer : MouseDown(e)
    \/ MouseUp
    \/ UserNodeClick
    \/ \E i \in 1..MaxConnections : ConnectionClick(i)
    \/ \E i \in 1..MaxConnections, k \in 1..MaxMutuals : MutualClick(i, k)
    \/ \E i \in 1..MaxConnections : ConnectionMouseEnter(i)
    \/ \E i \in 1..MaxConnections : ConnectionMouseLeave(i)

SpecSelect == Init /\ [][NextSelect]_vars

\* The first render has run: line 34 always places the central node.
Rendered == "user" \in DOMAIN nodePositions

-----------------------------------------------------------------------------
(* Properties *)

Three == [n |-> 3, d |-> 1]

ThreeTenths == [n |-> 3, d |-> 10]

\* C1: the layout is a function of connections and viewMode alone, so a render
\* caused by a change of pan, zoom, hover or drag state (the props staying the
\* same) leaves every node's position unchanged.
C1_RerenderKeepsPositions ==
    [][props' = props => nodePositions' = nodePositions]_vars

\* C2: a click on the central node, a connection node or a mutual node calls
\* onNodeSelect exactly once with that node's object, only a click calls it,
\* and the click changes none of zoom, pan, isDragging, dragStart,
\* hoveredConnection.
C2_SelectionEmittedNotStored ==
    [][ /\ UserNodeClick =>
              /\ onNodeSelectCalls' = Append(onNodeSelectCalls, [id |-> "user", name |-> "You"])
              /\ UNCHANGED <<zoom, pan, isDragging, dragStart, hoveredConnection>>
        /\ \A i \in 1..Len(connections) : ConnectionClick(i) =>
              /\ onNodeSelectCalls' = Append(onNodeSelectCalls, connections[i])
              /\ UNCHANGED <<zoom, pan, isDragging, dragStart, hoveredConnection>>
        /\ \A i \in 1..Len(connections) : \A k \in 1..Len(MutualsOf(connections[i])) :
              MutualClick(i, k) =>
                /\ onNodeSelectCalls' =
                      Append(onNodeSelectCalls, connections[i].mutualConnections[k])
                /\ UNCHANGED <<zoom, pan, isDragging, dragStart, hoveredConnection>>
        /\ onNodeSelectCalls' # onNodeSelectCalls =>
              \/ UserNodeClick
              \/ \E i \in 1..Len(connections) : ConnectionClick(i)
              \/ \E i \in 1..Len(connections) :
                     \E k \in 1..Len(MutualsOf(connections[i])) : MutualClick(i, k)
      ]_vars

\* C2 witness: a mutual node was clicked while a connection was hovered and the
\* pointer was pressed away from the origin.
C2_Witness ==
    /\ Len(onNodeSelectCalls) = 1
    /\ \E i \in 1..Len(connections) : \E k \in 1..Len(MutualsOf(connections[i])) :
           onNodeSelectCalls[1] = connections[i].mutualConnections[k]
    /\ hoveredConnection # Null
    /\ isDragging
    /\ dragStart # [x |-> 0, y |-> 0]

LegendColor(n) ==
    IF n >= 50 THEN "#0A66C2" ELSE IF n < 20 THEN "#65676B" ELSE "#42B883"

\* C3: the colour of every connection agrees with the legend: 50 or more
\* interactions strong (#0A66C2), fewer than 20 or no interactions field weak
\* (#65676B), 20 to 50 in between medium (#42B883).
C3_ColorAgreesWithLegend ==
    Rendered => \A i \in 1..Len(connections) :
        nodeColors[i] = LegendColor(IF "interactions" \in DOMAIN connections[i]
                                    THEN connections[i].interactions ELSE 0)

\* C4: 0.3 <= zoom <= 3 in every reachable state, and zoom-in at zoom = 3 and
\* zoom-out at zoom = 0.3 leave zoom unchanged.
C4_ZoomWithinLimits ==
    /\ [](10 * zoom.n >= 3 * zoom.d /\ zoom.n <= 3 * zoom.d)
    /\ [][ /\ (zoom = Three /\ ZoomIn) => zoom' = Three
           /\ (zoom = ThreeTenths /\ ZoomOut) => zoom' = ThreeTenths ]_vars

\* C4 witness: the zoom-in button was clicked once more after zoom reached 3.
C4_Witness == zoom = Three /\ zoomClicks >= 8

\* C5: during a drag that began with a mousedown at p while pan = P0, every
\* handled mousemove at q sets pan = P0 + (q - p).
C5_PanFollowsPointer ==
    [][\A q \in Pointer : (isDragging /\ MouseMove(q)) =>
          pan' = [x |-> grabPan.x + (q.clientX - grabPointer.clientX),
                  y |-> grabPan.y + (q.clientY - grabPointer.clientY)]]_vars

\* C5 witness: a drag that started from a pan other than the origin has moved
\* the view in both directions.
C5_Witness ==
    /\ isDragging
    /\ grabPan.x # 0 /\ grabPan.y # 0
    /\ pan.x # grabPan.x /\ pan.y # grabPan.y

\* C6: isDragging is false initially and is true exactly when the latest of
\* mousedown / mouseup / mouseleave was a mousedown; a mousemove handled while
\* isDragging is false changes none of pan, zoom, dragStart; zoom-in and
\* zoom-out change none of pan, isDragging, dragStart; pan changes only by a
\* mousemove of a drag or by a reset.
C6_PanOnlyByDragOrReset ==
    /\ ~isDragging
    /\ [](isDragging <=> lastSvgEvent = "mousedown")
    /\ [][ /\ \A q \in Pointer : (~isDragging /\ MouseMove(q)) =>
                  UNCHANGED <<pan, zoom, dragStart>>
           /\ (ZoomIn \/ ZoomOut) => UNCHANGED <<pan, isDragging, dragStart>>
           /\ pan' # pan => \/ isDragging /\ \E q \in Pointer : MouseMove(q)
                            \/ ResetView ]_vars

\* C6 witness: a drag moved the view and was ended by the pointer leaving.
C6_Witness ==
    /\ ~isDragging
    /\ lastSvgEvent = "mouseleave"
    /\ pan # [x |-> 0, y |-> 0]

IsAngle(angle, turnsNum, turnsDen, tenths) ==
    /\ angle.turns.n * turnsDen = turnsNum * angle.turns.d
    /\ angle.radians.n * 10 = tenths * angle.radians.d

IsPoint(point, radius, turnsNum, turnsDen, tenths) ==
    /\ point.cx = 400 /\ point.cy = 300
    /\ point.radius.n = radius * point.radius.d
    /\ IsAngle(point.angle, turnsNum, turnsDen, tenths)

\* C7: in tree and circular modes the connection at index i of n is at angle
\* 2*pi*i/n on the circle of centre (400, 300) and radius 150 (tree) or 200
\* (circular), so distinct indices get distinct angles in [0, 2*pi) and
\* distinct positions; in tree mode the mutual at index k is at radius 250 at
\* the connection's angle plus (k - 1) * 0.3; in force mode every connection's
\* radius lies in [100, 250).
C7_PlacementFormulas ==
    LET n == Len(connections)
        pos(i) == nodePositions[connections[i].id]
    IN  /\ (Rendered /\ viewMode \in {"tree", "circular"}) =>
            /\ \A i \in 1..n :
                  /\ IsPoint(pos(i), IF viewMode = "tree" THEN 150 ELSE 200, i - 1, n, 0)
                  /\ 0 <= pos(i).angle.turns.n /\ pos(i).angle.turns.n < pos(i).angle.turns.d
            /\ \A i, j \in 1..n : i # j =>
                  /\ pos(i).angle # pos(j).angle
                  /\ pos(i) # pos(j)
        /\ (Rendered /\ viewMode = "tree") =>
            \A i \in 1..n : \A k \in 1..Len(MutualsOf(connections[i])) :
                IsPoint(nodePositions[connections[i].id \o "-"
                                        \o connections[i].mutualConnections[k].id],
                        250, i - 1, n, ((k - 1) - 1) * 3)
        /\ (Rendered /\ viewMode = "force") =>
            \A i \in 1..n :
                /\ 100 * pos(i).radius.d <= pos(i).radius.n
                /\ pos(i).radius.n < 250 * pos(i).radius.d

\* C7 witness: a tree layout of three connections, the last with two mutuals.
C7_Witness ==
    /\ viewMode = "tree"
    /\ Len(connections) = 3
    /\ Len(MutualsOf(connections[3])) = 2
    /\ DOMAIN nodePositions = {"user", "1", "2", "3", "3-5", "3-6"}

====
